---- MODULE Spec2Model ----
(***************************************************************************)
(* A model of the CHIP-8 interpreter core (chip8_core/src/lib.rs) and of   *)
(* the desktop host loop that drives it (desktop/src/main.rs).             *)
(*                                                                         *)
(* The machine state is the set of fields of `Emu`.  A Rust panic ends the *)
(* process; it is modelled by the variable `fault`, which records the kind *)
(* of panic and freezes the machine in the state it had when the panic was *)
(* raised.                                                                 *)
(***************************************************************************)
EXTENDS Integers, Sequences, FiniteSets, TLC

VARIABLES pc, ram, screen, v_reg, i_reg, sp, stack, keys, dt, st,
          fault,   \* "none", or the kind of panic that ended the process
          call,    \* the last public operation the host invoked
          op,      \* the last opcode returned by fetch (-1 before the first)
          rom,     \* the bytes handed to the last load (<< >> before the first)
          key      \* the last key event the host received: <<keycode, down>>

vars == <<pc, ram, screen, v_reg, i_reg, sp, stack, keys, dt, st,
          fault, call, op, rom, key>>

machine == <<pc, ram, screen, v_reg, i_reg, sp, stack, keys, dt, st>>

-----------------------------------------------------------------------------
(* Program constants                                                       *)

SCREEN_WIDTH == 64
SCREEN_HEIGHT == 32
RAM_SIZE == 4096
STACK_SIZE == 16
NUM_KEYS == 16
START_ADDR == 512
NUM_REGS == 16
FONTSET_SIZE == 80

U8 == 256
U16 == 65536

FONTSET ==
  << 240, 144, 144, 144, 240,
      32,  96,  32,  32, 112,
     240,  16, 240, 128, 240,
     240,  16, 240,  16, 240,
     144, 144, 240,  16,  16,
     240, 128, 240,  16, 240,
     240, 128, 240, 144, 240,
     240,  16,  32,  64,  64,
     240, 144, 240, 144, 240,
     240, 144, 240,  16, 240,
     240, 144, 240, 144, 144,
     224, 144, 224, 144, 224,
     240, 128, 128, 128, 240,
     224, 144, 144, 144, 224,
     240, 128, 240, 128, 240,
     240, 128, 240, 128, 128 >>

-----------------------------------------------------------------------------
(* Bit arithmetic on unsigned integers                                     *)

Bit(v, k) == (v \div (2 ^ k)) % 2

RECURSIVE BitOr(_, _, _)
BitOr(a, b, k) ==
  IF k = 0 THEN 0
  ELSE (IF (a % 2) + (b % 2) > 0 THEN 1 ELSE 0) + 2 * BitOr(a \div 2, b \div 2, k - 1)

RECURSIVE BitAnd(_, _, _)
BitAnd(a, b, k) ==
  IF k = 0 THEN 0
  ELSE ((a % 2) * (b % 2)) + 2 * BitAnd(a \div 2, b \div 2, k - 1)

RECURSIVE BitXor(_, _, _)
BitXor(a, b, k) ==
  IF k = 0 THEN 0
  ELSE (((a % 2) + (b % 2)) % 2) + 2 * BitXor(a \div 2, b \div 2, k - 1)

-----------------------------------------------------------------------------
(* The machine as a value, and panics                                      *)

Emu == [pc |-> pc, ram |-> ram, screen |-> screen, v_reg |-> v_reg,
        i_reg |-> i_reg, sp |-> sp, stack |-> stack, keys |-> keys,
        dt |-> dt, st |-> st, fault |-> fault]

\* a panic: the process ends with the machine as it is at that point
Panic(m, kind) == [m EXCEPT !.fault = kind]

Faulted(m) == m.fault # "none"

new ==
  [pc |-> START_ADDR,
   ram |-> [a \in 0..(RAM_SIZE - 1) |-> IF a < FONTSET_SIZE THEN FONTSET[a + 1] ELSE 0],
   screen |-> [c \in 0..(SCREEN_WIDTH * SCREEN_HEIGHT - 1) |-> FALSE],
   v_reg |-> [r \in 0..(NUM_REGS - 1) |-> 0],
   i_reg |-> 0,
   sp |-> 0,
   stack |-> [s \in 0..(STACK_SIZE - 1) |-> 0],
   keys |-> [k \in 0..(NUM_KEYS - 1) |-> FALSE],
   dt |-> 0,
   st |-> 0,
   fault |-> "none"]

\* stack[sp] = val; sp += 1  (the index is checked before the write)
push(m, val) ==
  IF m.sp >= STACK_SIZE
  THEN Panic(m, "index_out_of_bounds")
  ELSE [m EXCEPT !.stack[m.sp] = val, !.sp = m.sp + 1]

\* sp -= 1; stack[sp].  At sp = 0 a build with overflow checks panics on the
\* subtraction; a build without them wraps sp to 65535 and panics on the index.
\* The popped value is stack[sp] of the machine returned.
pop(m, checked) ==
  IF m.sp = 0 /\ checked
  THEN Panic(m, "arith_overflow")
  ELSE LET s == (m.sp + (U16 - 1)) % U16
       IN IF s >= STACK_SIZE
          THEN Panic([m EXCEPT !.sp = s], "index_out_of_bounds")
          ELSE [m EXCEPT !.sp = s]

\* bytes k..Len(data) of data copied to mem[start + k - 1 ..], one by one
RECURSIVE copy_bytes(_, _, _, _)
copy_bytes(mem, start, data, k) ==
  IF k > Len(data) THEN mem
  ELSE copy_bytes([mem EXCEPT ![start + k - 1] = data[k]], start, data, k + 1)

\* ram[start..end].copy_from_slice(data), bytes k..Len(data) of data: a short
\* slice byte by byte, a long one in one piece
copy_from_slice(mem, start, data, k) ==
  IF Len(data) - k < 64
  THEN copy_bytes(mem, start, data, k)
  ELSE [a \in DOMAIN mem |->
          IF a >= start + k - 1 /\ a < start + Len(data)
          THEN data[a - start + 1]
          ELSE mem[a]]

\* reset that zeroes the machine but keeps the bytes of memory
reset_keep_ram(m) ==
  [m EXCEPT !.pc = START_ADDR,
            !.screen = [c \in 0..(SCREEN_WIDTH * SCREEN_HEIGHT - 1) |-> FALSE],
            !.v_reg = [r \in 0..(NUM_REGS - 1) |-> 0],
            !.i_reg = 0,
            !.sp = 0,
            !.stack = [s \in 0..(STACK_SIZE - 1) |-> 0],
            !.keys = [k \in 0..(NUM_KEYS - 1) |-> FALSE],
            !.dt = 0,
            !.st = 0]

\* every field is assigned in turn, then the font is copied over ram[..80]
reset(m) ==
  LET z == [m EXCEPT !.pc = START_ADDR,
                     !.ram = [a \in 0..(RAM_SIZE - 1) |-> 0],
                     !.screen = [c \in 0..(SCREEN_WIDTH * SCREEN_HEIGHT - 1) |-> FALSE],
                     !.v_reg = [r \in 0..(NUM_REGS - 1) |-> 0],
                     !.i_reg = 0,
                     !.sp = 0,
                     !.stack = [s \in 0..(STACK_SIZE - 1) |-> 0],
                     !.keys = [k \in 0..(NUM_KEYS - 1) |-> FALSE],
                     !.dt = 0,
                     !.st = 0]
  IN [z EXCEPT !.ram = copy_from_slice(z.ram, 0, FONTSET, 1)]

\* the opcode at pc, and the panic of an out-of-range read
fetch_ok(m) == m.pc < RAM_SIZE /\ m.pc + 1 < RAM_SIZE

fetch_op(m) == m.ram[m.pc] * 256 + m.ram[m.pc + 1]

fetch(m) ==
  IF fetch_ok(m)
  THEN [m EXCEPT !.pc = m.pc + 2]
  ELSE Panic(m, "index_out_of_bounds")

\* tick_timers that decrements without the guards, wrapping at zero
tick_timers_wrap(m) ==
  [m EXCEPT !.dt = (m.dt + (U8 - 1)) % U8, !.st = (m.st + (U8 - 1)) % U8]

tick_timers(m) ==
  LET m1 == IF m.dt > 0 THEN [m EXCEPT !.dt = m.dt - 1] ELSE m
  IN IF m1.st > 0 THEN [m1 EXCEPT !.st = m1.st - 1] ELSE m1

keypress(m, index, pressed) ==
  IF index >= NUM_KEYS
  THEN Panic(m, "index_out_of_bounds")
  ELSE [m EXCEPT !.keys[index] = pressed]

\* load that copies the program to the start of memory
load_at_zero(m, data) ==
  IF Len(data) > RAM_SIZE - START_ADDR
  THEN Panic(m, "index_out_of_bounds")
  ELSE [m EXCEPT !.ram = copy_from_slice(m.ram, 0, data, 1)]

\* the range start..end is checked against the length of ram before the copy
load(m, data) ==
  LET start == START_ADDR
      end == START_ADDR + Len(data)
  IN IF end > RAM_SIZE
     THEN Panic(m, "index_out_of_bounds")
     ELSE [m EXCEPT !.ram = copy_from_slice(m.ram, start, data, 1)]

-----------------------------------------------------------------------------
(* Decode: the four hexadecimal digits and the operands of an opcode        *)

digit1(o) == o \div 4096
digit2(o) == (o \div 256) % 16
digit3(o) == (o \div 16) % 16
digit4(o) == o % 16
NNN(o) == o % 4096
NN(o) == o % 256

-----------------------------------------------------------------------------
(* Execute: one operator per arm of the match.  Each takes the machine     *)
(* after fetch (pc already advanced by 2) and returns the machine after    *)
(* the arm, or the machine at the point of the panic.                      *)

op_00E0(m) == [m EXCEPT !.screen = new.screen]

\* 00EE that reads the slot at the old depth
op_00EE_stale(m, checked) ==
  LET p == pop(m, checked)
  IN IF Faulted(p) THEN p ELSE [p EXCEPT !.pc = p.stack[m.sp % STACK_SIZE]]

op_00EE(m, checked) ==
  LET p == pop(m, checked)
  IN IF Faulted(p) THEN p ELSE [p EXCEPT !.pc = p.stack[p.sp]]

op_1NNN(m, o) == [m EXCEPT !.pc = NNN(o)]

op_2NNN(m, o) ==
  LET p == push(m, m.pc)
  IN IF Faulted(p) THEN p ELSE [p EXCEPT !.pc = NNN(o)]

op_3XNN(m, o) ==
  IF m.v_reg[digit2(o)] = NN(o) THEN [m EXCEPT !.pc = m.pc + 2] ELSE m

\* 4XNN that skips on equality, as 3XNN does
op_4XNN_eq(m, o) ==
  IF m.v_reg[digit2(o)] = NN(o) THEN [m EXCEPT !.pc = m.pc + 2] ELSE m

op_4XNN(m, o) ==
  IF m.v_reg[digit2(o)] # NN(o) THEN [m EXCEPT !.pc = m.pc + 2] ELSE m

op_5XY0(m, o) ==
  IF m.v_reg[digit2(o)] = m.v_reg[digit3(o)] THEN [m EXCEPT !.pc = m.pc + 2] ELSE m

op_6XNN(m, o) == [m EXCEPT !.v_reg[digit2(o)] = NN(o)]

\* 7XNN that reports the carry in VF
op_7XNN_carry(m, o) ==
  LET sum == m.v_reg[digit2(o)] + NN(o)
  IN [m EXCEPT !.v_reg = [[m.v_reg EXCEPT ![digit2(o)] = sum % U8]
                            EXCEPT ![15] = IF sum >= U8 THEN 1 ELSE 0]]

op_7XNN(m, o) == [m EXCEPT !.v_reg[digit2(o)] = (m.v_reg[digit2(o)] + NN(o)) % U8]

op_8XY0(m, o) == [m EXCEPT !.v_reg[digit2(o)] = m.v_reg[digit3(o)]]

op_8XY1(m, o) ==
  [m EXCEPT !.v_reg[digit2(o)] = BitOr(m.v_reg[digit2(o)], m.v_reg[digit3(o)], 8)]

op_8XY2(m, o) ==
  [m EXCEPT !.v_reg[digit2(o)] = BitAnd(m.v_reg[digit2(o)], m.v_reg[digit3(o)], 8)]

op_8XY3(m, o) ==
  [m EXCEPT !.v_reg[digit2(o)] = BitXor(m.v_reg[digit2(o)], m.v_reg[digit3(o)], 8)]

\* 8XY4 that assigns v_reg[0xF] first and v_reg[x] second
op_8XY4_flagfirst(m, o) ==
  LET sum == m.v_reg[digit2(o)] + m.v_reg[digit3(o)]
      new_vx == sum % U8
      new_vf == IF sum >= U8 THEN 1 ELSE 0
  IN [m EXCEPT !.v_reg = [[m.v_reg EXCEPT ![15] = new_vf] EXCEPT ![digit2(o)] = new_vx]]

\* v_reg[x] is assigned first, v_reg[0xF] second
op_8XY4(m, o) ==
  LET sum == m.v_reg[digit2(o)] + m.v_reg[digit3(o)]
      new_vx == sum % U8
      new_vf == IF sum >= U8 THEN 1 ELSE 0
  IN [m EXCEPT !.v_reg = [[m.v_reg EXCEPT ![digit2(o)] = new_vx] EXCEPT ![15] = new_vf]]

\* 8XY5 that reports a borrow for equal operands
op_8XY5_strict(m, o) ==
  LET vx == m.v_reg[digit2(o)]
      vy == m.v_reg[digit3(o)]
      new_vx == (vx - vy + U8) % U8
      new_vf == IF vx <= vy THEN 0 ELSE 1
  IN [m EXCEPT !.v_reg = [[m.v_reg EXCEPT ![digit2(o)] = new_vx] EXCEPT ![15] = new_vf]]

op_8XY5(m, o) ==
  LET vx == m.v_reg[digit2(o)]
      vy == m.v_reg[digit3(o)]
      new_vx == (vx - vy + U8) % U8
      new_vf == IF vx < vy THEN 0 ELSE 1
  IN [m EXCEPT !.v_reg = [[m.v_reg EXCEPT ![digit2(o)] = new_vx] EXCEPT ![15] = new_vf]]

\* 8XY6 that shifts Vy into Vx
op_8XY6_vy(m, o) ==
  LET lsb == m.v_reg[digit3(o)] % 2
  IN [m EXCEPT !.v_reg = [[m.v_reg EXCEPT ![digit2(o)] = m.v_reg[digit3(o)] \div 2]
                            EXCEPT ![15] = lsb]]

op_8XY6(m, o) ==
  LET lsb == m.v_reg[digit2(o)] % 2
  IN [m EXCEPT !.v_reg = [[m.v_reg EXCEPT ![digit2(o)] = m.v_reg[digit2(o)] \div 2]
                            EXCEPT ![15] = lsb]]

op_8XY7(m, o) ==
  LET vx == m.v_reg[digit2(o)]
      vy == m.v_reg[digit3(o)]
      new_vx == (vy - vx + U8) % U8
      new_vf == IF vy < vx THEN 0 ELSE 1
  IN [m EXCEPT !.v_reg = [[m.v_reg EXCEPT ![digit2(o)] = new_vx] EXCEPT ![15] = new_vf]]

op_8XYE(m, o) ==
  LET msb == (m.v_reg[digit2(o)] \div 128) % 2
  IN [m EXCEPT !.v_reg = [[m.v_reg EXCEPT ![digit2(o)] = (m.v_reg[digit2(o)] * 2) % U8]
                            EXCEPT ![15] = msb]]

op_9XY0(m, o) ==
  IF m.v_reg[digit2(o)] # m.v_reg[digit3(o)] THEN [m EXCEPT !.pc = m.pc + 2] ELSE m

op_ANNN(m, o) == [m EXCEPT !.i_reg = NNN(o)]

\* BNNN that keeps the low 12 bits of the sum
op_BNNN_mask(m, o) == [m EXCEPT !.pc = (m.v_reg[0] + NNN(o)) % RAM_SIZE]

op_BNNN(m, o) == [m EXCEPT !.pc = m.v_reg[0] + NNN(o)]

op_CXNN(m, o, rng) == [m EXCEPT !.v_reg[digit2(o)] = BitAnd(rng, NN(o), 8)]

\* column loop that takes the least significant bit as column 0
RECURSIVE draw_cols_lsb(_, _, _, _, _)
draw_cols_lsb(acc, pixels, x_coord, y, x_line) ==
  IF x_line = 8 THEN acc
  ELSE IF Bit(pixels, x_line) # 0
       THEN LET x == (x_coord + x_line) % SCREEN_WIDTH
                index == x + SCREEN_WIDTH * y
            IN draw_cols_lsb([screen |-> [acc.screen EXCEPT ![index] = ~acc.screen[index]],
                              flipped |-> acc.flipped \/ acc.screen[index]],
                             pixels, x_coord, y, x_line + 1)
       ELSE draw_cols_lsb(acc, pixels, x_coord, y, x_line + 1)

\* column loop that keeps the collision of the last pixel only
RECURSIVE draw_cols_last(_, _, _, _, _)
draw_cols_last(acc, pixels, x_coord, y, x_line) ==
  IF x_line = 8 THEN acc
  ELSE IF Bit(pixels, 7 - x_line) # 0
       THEN LET x == (x_coord + x_line) % SCREEN_WIDTH
                index == x + SCREEN_WIDTH * y
            IN draw_cols_last([screen |-> [acc.screen EXCEPT ![index] = ~acc.screen[index]],
                               flipped |-> acc.screen[index]],
                              pixels, x_coord, y, x_line + 1)
       ELSE draw_cols_last(acc, pixels, x_coord, y, x_line + 1)

\* the inner loop of DXYN: the eight columns of one sprite row.
\* acc is [screen, flipped]; y is the row of the screen already reduced.
RECURSIVE draw_cols(_, _, _, _, _)
draw_cols(acc, pixels, x_coord, y, x_line) ==
  IF x_line = 8 THEN acc
  ELSE IF Bit(pixels, 7 - x_line) # 0
       THEN LET x == (x_coord + x_line) % SCREEN_WIDTH
                index == x + SCREEN_WIDTH * y
            IN draw_cols([screen |-> [acc.screen EXCEPT ![index] = ~acc.screen[index]],
                          flipped |-> acc.flipped \/ acc.screen[index]],
                         pixels, x_coord, y, x_line + 1)
       ELSE draw_cols(acc, pixels, x_coord, y, x_line + 1)

\* the outer loop of DXYN: rows y_line..num_rows-1 drawn onto the screen of
\* m, then the write of VF.  A read of ram past its end panics with the rows
\* drawn so far on the screen.
RECURSIVE draw_rows(_, _, _, _, _, _)
draw_rows(m, flipped, x_coord, y_coord, num_rows, y_line) ==
  IF y_line = num_rows
  THEN [m EXCEPT !.v_reg[15] = IF flipped THEN 1 ELSE 0]
  ELSE LET addr == m.i_reg + y_line
       IN IF addr >= RAM_SIZE
          THEN Panic(m, "index_out_of_bounds")
          ELSE LET row == draw_cols([screen |-> m.screen, flipped |-> flipped],
                                    m.ram[addr], x_coord,
                                    (y_coord + y_line) % SCREEN_HEIGHT, 0)
               IN draw_rows([m EXCEPT !.screen = row.screen], row.flipped,
                            x_coord, y_coord, num_rows, y_line + 1)

\* DXYN that draws at the same place but never reports a collision
op_DXYN_noflag(m, o) ==
  [draw_rows(m, FALSE, m.v_reg[digit2(o)], m.v_reg[digit3(o)], digit4(o), 0)
     EXCEPT !.v_reg[15] = 0]

op_DXYN(m, o) ==
  draw_rows(m, FALSE, m.v_reg[digit2(o)], m.v_reg[digit3(o)], digit4(o), 0)

\* EX9E that indexes the keys with the low four bits of Vx
op_EX9E_mask(m, o) ==
  IF m.keys[m.v_reg[digit2(o)] % NUM_KEYS] THEN [m EXCEPT !.pc = m.pc + 2] ELSE m

op_EX9E(m, o) ==
  LET vx == m.v_reg[digit2(o)]
  IN IF vx >= NUM_KEYS THEN Panic(m, "index_out_of_bounds")
     ELSE IF m.keys[vx] THEN [m EXCEPT !.pc = m.pc + 2] ELSE m

op_EXA1(m, o) ==
  LET vx == m.v_reg[digit2(o)]
  IN IF vx >= NUM_KEYS THEN Panic(m, "index_out_of_bounds")
     ELSE IF ~m.keys[vx] THEN [m EXCEPT !.pc = m.pc + 2] ELSE m

\* FX07 that clears the delay timer as it reads it
op_FX07_clear(m, o) == [m EXCEPT !.v_reg[digit2(o)] = m.dt, !.dt = 0]

op_FX07(m, o) == [m EXCEPT !.v_reg[digit2(o)] = m.dt]

\* the scan of FX0A: the first pressed key at or after index i, or NUM_KEYS
RECURSIVE first_pressed(_, _)
first_pressed(k, i) ==
  IF i = NUM_KEYS THEN NUM_KEYS
  ELSE IF k[i] THEN i
  ELSE first_pressed(k, i + 1)

\* FX0A that does not rewind pc when no key is pressed
op_FX0A_norewind(m, o) ==
  LET i == first_pressed(m.keys, 0)
  IN IF i < NUM_KEYS THEN [m EXCEPT !.v_reg[digit2(o)] = i] ELSE m

op_FX0A(m, o) ==
  LET i == first_pressed(m.keys, 0)
  IN IF i < NUM_KEYS
     THEN [m EXCEPT !.v_reg[digit2(o)] = i]
     ELSE [m EXCEPT !.pc = m.pc - 2]

op_FX15(m, o) == [m EXCEPT !.dt = m.v_reg[digit2(o)]]

op_FX18(m, o) == [m EXCEPT !.st = m.v_reg[digit2(o)]]

op_FX1E(m, o) == [m EXCEPT !.i_reg = (m.i_reg + m.v_reg[digit2(o)]) % U16]

\* FX29 for sprites four bytes apart
op_FX29_stride4(m, o) == [m EXCEPT !.i_reg = m.v_reg[digit2(o)] * 4]

op_FX29(m, o) == [m EXCEPT !.i_reg = m.v_reg[digit2(o)] * 5]

\* f32 division of two small integers: the exponent e with
\* 2^23 <= n * 2^e / d < 2^24, from e upward
RECURSIVE f32_exponent(_, _, _)
f32_exponent(n, d, e) ==
  IF n * (2 ^ e) >= d * (2 ^ 23) THEN e ELSE f32_exponent(n, d, e + 1)

\* the 24-bit significand of n / d rounded to nearest, ties to even, and the
\* floor of the rounded quotient
f32_div_floor(n, d) ==
  IF n = 0 THEN 0
  ELSE LET e == f32_exponent(n, d, 0)
           num == n * (2 ^ e)
           q == num \div d
           r == num % d
           sig == IF 2 * r > d \/ (2 * r = d /\ q % 2 = 1) THEN q + 1 ELSE q
       IN sig \div (2 ^ e)

\* the three stores of a BCD, checked one after the other
bcd_store(m, hundreds, tens, ones) ==
  LET i == m.i_reg
  IN IF i >= RAM_SIZE THEN Panic(m, "index_out_of_bounds")
     ELSE IF i + 1 >= RAM_SIZE
          THEN Panic([m EXCEPT !.ram[i] = hundreds], "index_out_of_bounds")
     ELSE IF i + 2 >= RAM_SIZE
          THEN Panic([m EXCEPT !.ram[i] = hundreds, !.ram[i + 1] = tens],
                     "index_out_of_bounds")
     ELSE [m EXCEPT !.ram[i] = hundreds, !.ram[i + 1] = tens, !.ram[i + 2] = ones]

\* FX33 that does not reduce the tens modulo 10
op_FX33_tens(m, o) ==
  LET vx == m.v_reg[digit2(o)]
  IN bcd_store(m, f32_div_floor(vx, 100), f32_div_floor(vx, 10), vx % 10)

\* The digits are computed in f32: (vx / 100.0).floor(),
\* ((vx / 10.0) % 10.0).floor() and vx % 10.0.  The remainder of an f32 by
\* 10.0 is exact, so the floor of the remainder is the floor of the quotient
\* reduced modulo 10.
op_FX33(m, o) ==
  LET vx == m.v_reg[digit2(o)]
      hundreds == f32_div_floor(vx, 100)
      tens == f32_div_floor(vx, 10) % 10
      ones == vx % 10
  IN bcd_store(m, hundreds, tens, ones)

\* for index in 0..=x { ram[i + index] = v_reg[index] }
RECURSIVE store_regs(_, _, _)
store_regs(m, x, index) ==
  IF index > x THEN m
  ELSE IF m.i_reg + index >= RAM_SIZE THEN Panic(m, "index_out_of_bounds")
  ELSE store_regs([m EXCEPT !.ram[m.i_reg + index] = m.v_reg[index]], x, index + 1)

\* FX55 that leaves I past the last byte stored
RECURSIVE store_regs_advance(_, _, _)
store_regs_advance(m, x, index) ==
  IF index > x THEN [m EXCEPT !.i_reg = m.i_reg + x + 1]
  ELSE IF m.i_reg + index >= RAM_SIZE THEN Panic(m, "index_out_of_bounds")
  ELSE store_regs_advance([m EXCEPT !.ram[m.i_reg + index] = m.v_reg[index]], x, index + 1)

op_FX55_advance(m, o) == store_regs_advance(m, digit2(o), 0)

op_FX55(m, o) == store_regs(m, digit2(o), 0)

\* for index in 0..=x { v_reg[index] = ram[i + index] }
RECURSIVE load_regs(_, _, _)
load_regs(m, x, index) ==
  IF index > x THEN m
  ELSE IF m.i_reg + index >= RAM_SIZE THEN Panic(m, "index_out_of_bounds")
  ELSE load_regs([m EXCEPT !.v_reg[index] = m.ram[m.i_reg + index]], x, index + 1)

op_FX65(m, o) == load_regs(m, digit2(o), 0)

\* decode that matches 5XYn and 9XYn on the leading digit alone
decode_prefix(o) ==
  LET d1 == digit1(o)
      d2 == digit2(o)
      d3 == digit3(o)
      d4 == digit4(o)
  IN CASE d1 = 0 /\ d2 = 0 /\ d3 = 0 /\ d4 = 0 -> "NOP"
       [] d1 = 0 /\ d2 = 0 /\ d3 = 14 /\ d4 = 0 -> "CLS"
       [] d1 = 0 /\ d2 = 0 /\ d3 = 14 /\ d4 = 14 -> "RET"
       [] d1 = 1 -> "JMP"
       [] d1 = 2 -> "CALL"
       [] d1 = 3 -> "SE_NN"
       [] d1 = 4 -> "SNE_NN"
       [] d1 = 5 -> "SE_VY"
       [] d1 = 6 -> "LD_NN"
       [] d1 = 7 -> "ADD_NN"
       [] d1 = 8 /\ d4 = 0 -> "LD_VY"
       [] d1 = 8 /\ d4 = 1 -> "OR"
       [] d1 = 8 /\ d4 = 2 -> "AND"
       [] d1 = 8 /\ d4 = 3 -> "XOR"
       [] d1 = 8 /\ d4 = 4 -> "ADD_VY"
       [] d1 = 8 /\ d4 = 5 -> "SUB"
       [] d1 = 8 /\ d4 = 6 -> "SHR"
       [] d1 = 8 /\ d4 = 7 -> "SUBN"
       [] d1 = 8 /\ d4 = 14 -> "SHL"
       [] d1 = 9 -> "SNE_VY"
       [] d1 = 10 -> "LD_I"
       [] d1 = 11 -> "JMP_V0"
       [] d1 = 12 -> "RND"
       [] d1 = 13 -> "DRAW"
       [] d1 = 14 /\ d3 = 9 /\ d4 = 14 -> "SKP"
       [] d1 = 14 /\ d3 = 10 /\ d4 = 1 -> "SKNP"
       [] d1 = 15 /\ d3 = 0 /\ d4 = 7 -> "LD_VX_DT"
       [] d1 = 15 /\ d3 = 0 /\ d4 = 10 -> "WAIT_KEY"
       [] d1 = 15 /\ d3 = 1 /\ d4 = 5 -> "LD_DT"
       [] d1 = 15 /\ d3 = 1 /\ d4 = 8 -> "LD_ST"
       [] d1 = 15 /\ d3 = 1 /\ d4 = 14 -> "ADD_I"
       [] d1 = 15 /\ d3 = 2 /\ d4 = 9 -> "FONT"
       [] d1 = 15 /\ d3 = 3 /\ d4 = 3 -> "BCD"
       [] d1 = 15 /\ d3 = 5 /\ d4 = 5 -> "STORE"
       [] d1 = 15 /\ d3 = 6 /\ d4 = 5 -> "LOAD"
       [] OTHER -> "unimplemented"

\* the tag of the arm that matches an opcode; "unimplemented" is the default arm
decode(o) ==
  LET d1 == digit1(o)
      d2 == digit2(o)
      d3 == digit3(o)
      d4 == digit4(o)
  IN CASE d1 = 0 /\ d2 = 0 /\ d3 = 0 /\ d4 = 0 -> "NOP"
       [] d1 = 0 /\ d2 = 0 /\ d3 = 14 /\ d4 = 0 -> "CLS"
       [] d1 = 0 /\ d2 = 0 /\ d3 = 14 /\ d4 = 14 -> "RET"
       [] d1 = 1 -> "JMP"
       [] d1 = 2 -> "CALL"
       [] d1 = 3 -> "SE_NN"
       [] d1 = 4 -> "SNE_NN"
       [] d1 = 5 /\ d4 = 0 -> "SE_VY"
       [] d1 = 6 -> "LD_NN"
       [] d1 = 7 -> "ADD_NN"
       [] d1 = 8 /\ d4 = 0 -> "LD_VY"
       [] d1 = 8 /\ d4 = 1 -> "OR"
       [] d1 = 8 /\ d4 = 2 -> "AND"
       [] d1 = 8 /\ d4 = 3 -> "XOR"
       [] d1 = 8 /\ d4 = 4 -> "ADD_VY"
       [] d1 = 8 /\ d4 = 5 -> "SUB"
       [] d1 = 8 /\ d4 = 6 -> "SHR"
       [] d1 = 8 /\ d4 = 7 -> "SUBN"
       [] d1 = 8 /\ d4 = 14 -> "SHL"
       [] d1 = 9 /\ d4 = 0 -> "SNE_VY"
       [] d1 = 10 -> "LD_I"
       [] d1 = 11 -> "JMP_V0"
       [] d1 = 12 -> "RND"
       [] d1 = 13 -> "DRAW"
       [] d1 = 14 /\ d3 = 9 /\ d4 = 14 -> "SKP"
       [] d1 = 14 /\ d3 = 10 /\ d4 = 1 -> "SKNP"
       [] d1 = 15 /\ d3 = 0 /\ d4 = 7 -> "LD_VX_DT"
       [] d1 = 15 /\ d3 = 0 /\ d4 = 10 -> "WAIT_KEY"
       [] d1 = 15 /\ d3 = 1 /\ d4 = 5 -> "LD_DT"
       [] d1 = 15 /\ d3 = 1 /\ d4 = 8 -> "LD_ST"
       [] d1 = 15 /\ d3 = 1 /\ d4 = 14 -> "ADD_I"
       [] d1 = 15 /\ d3 = 2 /\ d4 = 9 -> "FONT"
       [] d1 = 15 /\ d3 = 3 /\ d4 = 3 -> "BCD"
       [] d1 = 15 /\ d3 = 5 /\ d4 = 5 -> "STORE"
       [] d1 = 15 /\ d3 = 6 /\ d4 = 5 -> "LOAD"
       [] OTHER -> "unimplemented"

\* rng is the byte random() returns; checked says whether the build traps
\* integer overflow
execute(m, o, rng, checked) ==
  LET t == decode(o)
  IN CASE t = "NOP" -> m
       [] t = "CLS" -> op_00E0(m)
       [] t = "RET" -> op_00EE(m, checked)
       [] t = "JMP" -> op_1NNN(m, o)
       [] t = "CALL" -> op_2NNN(m, o)
       [] t = "SE_NN" -> op_3XNN(m, o)
       [] t = "SNE_NN" -> op_4XNN(m, o)
       [] t = "SE_VY" -> op_5XY0(m, o)
       [] t = "LD_NN" -> op_6XNN(m, o)
       [] t = "ADD_NN" -> op_7XNN(m, o)
       [] t = "LD_VY" -> op_8XY0(m, o)
       [] t = "OR" -> op_8XY1(m, o)
       [] t = "AND" -> op_8XY2(m, o)
       [] t = "XOR" -> op_8XY3(m, o)
       [] t = "ADD_VY" -> op_8XY4(m, o)
       [] t = "SUB" -> op_8XY5(m, o)
       [] t = "SHR" -> op_8XY6(m, o)
       [] t = "SUBN" -> op_8XY7(m, o)
       [] t = "SHL" -> op_8XYE(m, o)
       [] t = "SNE_VY" -> op_9XY0(m, o)
       [] t = "LD_I" -> op_ANNN(m, o)
       [] t = "JMP_V0" -> op_BNNN(m, o)
       [] t = "RND" -> op_CXNN(m, o, rng)
       [] t = "DRAW" -> op_DXYN(m, o)
       [] t = "SKP" -> op_EX9E(m, o)
       [] t = "SKNP" -> op_EXA1(m, o)
       [] t = "LD_VX_DT" -> op_FX07(m, o)
       [] t = "WAIT_KEY" -> op_FX0A(m, o)
       [] t = "LD_DT" -> op_FX15(m, o)
       [] t = "LD_ST" -> op_FX18(m, o)
       [] t = "ADD_I" -> op_FX1E(m, o)
       [] t = "FONT" -> op_FX29(m, o)
       [] t = "BCD" -> op_FX33(m, o)
       [] t = "STORE" -> op_FX55(m, o)
       [] t = "LOAD" -> op_FX65(m, o)
       [] OTHER -> Panic(m, "unimplemented")

\* fetch, then decode and execute
tick(m, rng, checked) ==
  IF fetch_ok(m) THEN execute(fetch(m), fetch_op(m), rng, checked) ELSE fetch(m)

-----------------------------------------------------------------------------
(* The host: it constructs the machine, loads a program, then delivers key *)
(* events, ticks and timer ticks.  Nothing runs after a panic.             *)

Set(m) ==
  /\ pc' = m.pc
  /\ ram' = m.ram
  /\ screen' = m.screen
  /\ v_reg' = m.v_reg
  /\ i_reg' = m.i_reg
  /\ sp' = m.sp
  /\ stack' = m.stack
  /\ keys' = m.keys
  /\ dt' = m.dt
  /\ st' = m.st
  /\ fault' = m.fault

Init ==
  /\ pc = new.pc
  /\ ram = new.ram
  /\ screen = new.screen
  /\ v_reg = new.v_reg
  /\ i_reg = new.i_reg
  /\ sp = new.sp
  /\ stack = new.stack
  /\ keys = new.keys
  /\ dt = new.dt
  /\ st = new.st
  /\ fault = "none"
  /\ call = "new"
  /\ op = -1
  /\ rom = << >>
  /\ key = <<"none", FALSE>>

\* chip8.load(&buffer): the host loads one of the programs into a machine
\* just constructed or reset
Load(programs) ==
  /\ fault = "none"
  /\ call \in {"new", "reset"}
  /\ \E data \in programs :
       /\ Set(load(Emu, data))
       /\ rom' = data
  /\ call' = "load"
  /\ UNCHANGED <<op, key>>

\* chip8.load(&buffer) on a machine in any state
LoadAgain(programs) ==
  /\ fault = "none"
  /\ \E data \in programs :
       /\ Set(load(Emu, data))
       /\ rom' = data
  /\ call' = "load"
  /\ UNCHANGED <<op, key>>

\* random() is consulted by CXNN only; the overflow check matters to 00EE only
RandomBytes(o) == IF decode(o) = "RND" THEN 0..(U8 - 1) ELSE {0}
Builds(o) == IF decode(o) = "RET" THEN BOOLEAN ELSE {TRUE}

\* chip8.tick(): the host ticks a machine that has a program loaded
Tick ==
  /\ fault = "none"
  /\ call \notin {"new", "reset"}
  /\ LET o == IF fetch_ok(Emu) THEN fetch_op(Emu) ELSE op
     IN /\ \E rng \in RandomBytes(o), checked \in Builds(o) :
             Set(tick(Emu, rng, checked))
        /\ op' = o
  /\ call' = "tick"
  /\ UNCHANGED <<rom, key>>

\* chip8.tick() on a machine that has had no load since it was constructed
\* or reset
TickEmpty ==
  /\ fault = "none"
  /\ call \in {"new", "reset"}
  /\ LET o == IF fetch_ok(Emu) THEN fetch_op(Emu) ELSE op
     IN /\ \E rng \in RandomBytes(o), checked \in Builds(o) :
             Set(tick(Emu, rng, checked))
        /\ op' = o
  /\ call' = "tick"
  /\ UNCHANGED <<rom, key>>

\* chip8.tick_timers()
TickTimers ==
  /\ fault = "none"
  /\ call \notin {"new", "reset"}
  /\ Set(tick_timers(Emu))
  /\ call' = "tick_timers"
  /\ UNCHANGED <<op, rom, key>>

\* chip8.keypress(k, pressed), k from key2btn
Keypress(index, pressed) ==
  /\ fault = "none"
  /\ call \notin {"new", "reset"}
  /\ Set(keypress(Emu, index, pressed))
  /\ call' = "keypress"
  /\ UNCHANGED <<op, rom, key>>

\* key2btn: the key index of a keycode, or None
None == -1

key2btn(code) ==
  CASE code = "Num1" -> 1
    [] code = "Num2" -> 2
    [] code = "Num3" -> 3
    [] code = "Num4" -> 4
    [] code = "Q" -> 5
    [] code = "W" -> 6
    [] code = "E" -> 6
    [] code = "R" -> 13
    [] code = "A" -> 7
    [] code = "S" -> 8
    [] code = "D" -> 9
    [] code = "F" -> 14
    [] code = "Z" -> 11
    [] code = "X" -> 0
    [] code = "C" -> 11
    [] code = "V" -> 15
    [] OTHER -> None

\* a KeyDown or KeyUp event of the event loop: the key is latched if key2btn
\* has an index for it; otherwise the event passes without a call
KeyEvent(code, down) ==
  /\ fault = "none"
  /\ call \notin {"new", "reset"}
  /\ LET k == key2btn(code)
     IN IF k # None
        THEN Set(keypress(Emu, k, down)) /\ call' = "keypress"
        ELSE UNCHANGED <<machine, fault>> /\ call' = "none"
  /\ key' = <<code, down>>
  /\ UNCHANGED <<op, rom>>

\* chip8.reset()
Reset ==
  /\ fault = "none"
  /\ call \notin {"new", "reset"}
  /\ Set(reset(Emu))
  /\ call' = "reset"
  /\ op' = -1
  /\ rom' = << >>
  /\ UNCHANGED key

-----------------------------------------------------------------------------
(* Programs                                                                *)

\* the bytes of a sequence of opcodes, big-endian
Words(ws) == [j \in 1..(2 * Len(ws)) |->
                IF j % 2 = 1 THEN ws[(j + 1) \div 2] \div 256
                             ELSE ws[j \div 2] % 256]

\* the opcode stored at address a
WordAt(a) == ram[a] * 256 + ram[a + 1]

RET == 238
JMP(nnn) == 4096 + nnn
CALLTO(nnn) == 8192 + nnn
LD(x, nn) == 24576 + 256 * x + nn
WAITKEY(x) == 61450 + 256 * x

\* --- key wait: Vx = v; wait for a key into Vx; then spin ---
KeyRegs == {0, 7, 15}
KeyRom(x, v) == Words(<<LD(x, v), WAITKEY(x), JMP(START_ADDR + 4)>>)
KeyRoms == {KeyRom(x, 170) : x \in KeyRegs}
KeySample == {0, 3, 9, 15}

NextKey ==
  \/ Load(KeyRoms)
  \/ Tick
  \/ \E index \in KeySample, pressed \in BOOLEAN : Keypress(index, pressed)

SpecKey == Init /\ [][NextKey]_vars

\* --- call chains: slot k (4 bytes at START_ADDR + 4k) holds CALL slot k+1
\* followed by one more word; the last slot, d + n, holds RET.  The word after
\* the CALL is a jump to itself in slots 0..d and RET in slots d+1..d+n-1, so
\* the machine makes d + n nested calls, returns n times, and then spins on
\* the word after the CALL of slot d.
Slot(k) == START_ADDR + 4 * k

CallRom(d, n) ==
  Words([j \in 1..(2 * (d + n) + 1) |->
           IF j = 2 * (d + n) + 1 THEN RET
           ELSE IF j % 2 = 1 THEN CALLTO(Slot((j + 1) \div 2))
           ELSE IF (j \div 2) - 1 <= d THEN JMP(START_ADDR + 2 * (j - 1))
           ELSE RET])

CallRoms == {CallRom(d, n) : d \in 0..STACK_SIZE, n \in 0..(STACK_SIZE + 1)}

NextStack ==
  \/ Load(CallRoms)
  \/ Tick

SpecStack == Init /\ [][NextStack]_vars

\* --- single opcodes: the opcode at START_ADDR, then a spin at each of the
\* two addresses it can fall through to.  Jumps and calls go to those too.
D2InZero == {0, 1, 14, 15}
D2Sample == {0, 15}
JumpTargets == {START_ADDR, START_ADDR + 2, START_ADDR + 4}

LoSample == {0, 1, 158, 255}

\* every low byte for the rows that are not jumps, a few for the random row
OpSamples ==
  {256 * d2 + lo : d2 \in D2InZero, lo \in 0..255}
  \cup {4096 * d1 + 256 * d2 + lo :
          d1 \in (3..15) \ {11, 12}, d2 \in D2Sample, lo \in 0..255}
  \cup {4096 * 12 + 256 * d2 + lo : d2 \in D2Sample, lo \in LoSample}
  \cup {4096 * d1 + nnn : d1 \in {1, 2, 11}, nnn \in JumpTargets}

DecodeRom(o) == Words(<<o, JMP(START_ADDR + 2), JMP(START_ADDR + 4)>>)
DecodeRoms == {DecodeRom(o) : o \in OpSamples}

NextDecode ==
  \/ Load(DecodeRoms)
  \/ Tick

SpecDecode == Init /\ [][NextDecode]_vars

\* an opcode from its four digits
OP(d1, d2, d3, d4) == 4096 * d1 + 256 * d2 + 16 * d3 + d4

\* --- timers: V1 = a; DT = V1; V2 = b; ST = V2; one more opcode; spin ---
MaxTimer == 2
TimerVals == 0..MaxTimer
LongTimers == {<<255, 0>>, <<0, 255>>}

TimerOps ==
  {0, 224, 238, JMP(START_ADDR + 10), CALLTO(START_ADDR + 10),
   OP(3, 1, 0, 1), OP(4, 1, 0, 1), OP(5, 1, 2, 0), OP(6, 3, 4, 4), OP(7, 1, 0, 1),
   OP(8, 1, 2, 0), OP(8, 1, 2, 1), OP(8, 1, 2, 2), OP(8, 1, 2, 3), OP(8, 1, 2, 4),
   OP(8, 1, 2, 5), OP(8, 1, 2, 6), OP(8, 1, 2, 7), OP(8, 1, 2, 14), OP(9, 1, 2, 0),
   OP(10, 2, 2, 2), OP(11, 2, 0, 10), OP(12, 3, 0, 3), OP(13, 1, 2, 5),
   OP(14, 0, 9, 14), OP(14, 0, 10, 1), OP(15, 3, 0, 7), OP(15, 3, 0, 10),
   OP(15, 3, 1, 5), OP(15, 3, 1, 8), OP(15, 1, 1, 14), OP(15, 1, 2, 9),
   OP(15, 1, 3, 3), OP(15, 2, 5, 5), OP(15, 2, 6, 5)}

TimerRom(a, b, o) ==
  Words(<<LD(1, a), OP(15, 1, 1, 5), LD(2, b), OP(15, 2, 1, 8), o,
          JMP(START_ADDR + 10), JMP(START_ADDR + 12)>>)

TimerRoms ==
  {TimerRom(a, b, o) : a \in TimerVals, b \in TimerVals, o \in TimerOps}
  \cup {TimerRom(t[1], t[2], OP(15, 3, 0, 7)) : t \in LongTimers}

NextTimer ==
  \/ Load(TimerRoms)
  \/ Tick
  \/ TickTimers

SpecTimer == Init /\ [][NextTimer]_vars

\* --- draws: Vx = vx; Vy = vy; I = sprite; three draws of the same sprite at
\* the same place; Vy += 1; two draws one row down; spin.  The sprite rows
\* follow the code.
RegPairs == {<<0, 1>>, <<1, 0>>, <<5, 5>>, <<15, 1>>, <<2, 15>>}
XSample == {0, 60, 63, 200, 255}
YSample == {0, 30, 31, 255}
Heights == {0, 1, 2, 15}
SpriteAddr == START_ADDR + 22

Sprites ==
  { [r \in 1..15 |-> 255],
    [r \in 1..15 |-> 0],
    [r \in 1..15 |-> IF r = 1 THEN 128 ELSE IF r = 2 THEN 192 ELSE 0],
    [r \in 1..15 |-> IF r % 2 = 1 THEN 165 ELSE 1] }

DrawRom(x, y, vx, vy, n, sprite) ==
  Words(<<LD(x, vx), LD(y, vy), OP(10, 0, 0, 0) + SpriteAddr,
          OP(13, x, y, n), OP(13, x, y, n), OP(13, x, y, n),
          OP(7, y, 0, 1),
          OP(13, x, y, n), OP(13, x, y, n),
          JMP(START_ADDR + 18), 0>>) \o sprite

DrawRoms ==
  {DrawRom(p[1], p[2], vx, vy, n, sprite) :
     p \in RegPairs, vx \in XSample, vy \in YSample, n \in Heights, sprite \in Sprites}

NextDraw ==
  \/ Load(DrawRoms)
  \/ Tick

SpecDraw == Init /\ [][NextDraw]_vars

\* --- arithmetic: VF = 5; Vx = nn; Vx += nn2; spin ---
ByteSample == {0, 1, 127, 128, 255}
FlagSeed == 5

AddRom(x, nn, nn2) ==
  Words(<<LD(15, FlagSeed), LD(x, nn), OP(7, x, 0, 0) + nn2, JMP(START_ADDR + 6)>>)

AddRoms == {AddRom(x, nn, nn2) : x \in 0..(NUM_REGS - 1), nn \in ByteSample, nn2 \in ByteSample}

\* --- arithmetic: VF = 5; Vy = b; Vx = a; one of 8XY4, 8XY5, 8XY6, 8XY7,
\* 8XYE; spin.  Every register pair with one operand pair, and a few register
\* pairs with every pair of sampled bytes.
AluOps == {4, 5, 6, 7, 14}
AluRegs == {0, 1, 15}
AluPairs == {<<255, 1>>}

AluRom(x, y, a, b, d4) ==
  Words(<<LD(15, FlagSeed), LD(y, b), LD(x, a), OP(8, x, y, d4), JMP(START_ADDR + 8)>>)

AluRoms ==
  {AluRom(x, y, v[1], v[2], d4) :
     x \in 0..(NUM_REGS - 1), y \in 0..(NUM_REGS - 1), v \in AluPairs, d4 \in AluOps}
  \cup {AluRom(x, y, a, b, d4) :
          x \in AluRegs, y \in AluRegs, a \in ByteSample, b \in ByteSample, d4 \in AluOps}

NextAlu ==
  \/ Load(AddRoms \cup AluRoms)
  \/ Tick

SpecAlu == Init /\ [][NextAlu]_vars

\* --- BCD: Vx = v; I = i; FX33; spin ---
BcdRegs == {0, 15}
BcdAddrs == {0, 768, RAM_SIZE - 3, RAM_SIZE - 1}

BcdRom(x, v, i) ==
  Words(<<LD(x, v), OP(10, 0, 0, 0) + i, OP(15, x, 3, 3), JMP(START_ADDR + 6)>>)

BcdRoms == {BcdRom(x, v, i) : x \in BcdRegs, v \in 0..(U8 - 1), i \in BcdAddrs}

\* --- store and load: V0..VF = 16k + 9; I = i; FX55; V0..Vx = 0; FX65; spin.
\* i is the font area, a free area, the last x + 1 bytes of memory, or one
\* byte further.
RegSeed(k) == 16 * k + 9
StoreAddrs(x) == {0, 768, RAM_SIZE - 1 - x} \cup (IF x > 0 THEN {RAM_SIZE - x} ELSE {})

StoreRom(x, i) ==
  Words([k \in 1..NUM_REGS |-> LD(k - 1, RegSeed(k - 1))]
        \o <<OP(10, 0, 0, 0) + i, OP(15, x, 5, 5)>>
        \o [k \in 1..(x + 1) |-> LD(k - 1, 0)]
        \o <<OP(15, x, 6, 5), JMP(START_ADDR + 2 * (NUM_REGS + x + 4))>>)

StoreRoms == UNION {{StoreRom(x, i) : i \in StoreAddrs(x)} : x \in 0..(NUM_REGS - 1)}

NextMem ==
  \/ Load(BcdRoms \cup StoreRoms)
  \/ Tick

SpecMem == Init /\ [][NextMem]_vars

\* --- font: Vx = d; I = font sprite of Vx; draw it at (d, d); spin ---
FontRegs == {0, 15}
FontVals == 0..(NUM_KEYS - 1) \cup {16, 255}

FontRom(x, d) ==
  Words(<<LD(x, d), OP(15, x, 2, 9), OP(13, x, x, 5), JMP(START_ADDR + 6)>>)

FontRoms == {FontRom(x, d) : x \in FontRegs, d \in FontVals}

\* --- a program that leaves its mark on every part of the machine: a glyph
\* on the screen, both timers running, one return address on the stack,
\* digits in memory, I and registers set, then a wait for a key.
DirtyRom ==
  Words(<<LD(1, 7), OP(15, 1, 2, 9), OP(13, 1, 1, 5),
          LD(2, 3), OP(15, 2, 1, 5), OP(15, 2, 1, 8),
          CALLTO(START_ADDR + 16), JMP(START_ADDR + 14),
          LD(3, 234), OP(10, 0, 0, 0) + 768, OP(15, 3, 3, 3),
          WAITKEY(0), JMP(START_ADDR + 24)>>)

ImageKeys == {"V", "P"}

NextImage ==
  \/ Load(FontRoms \cup {DirtyRom})
  \/ Tick
  \/ TickTimers
  \/ \E code \in ImageKeys, down \in BOOLEAN : KeyEvent(code, down)
  \/ Reset

SpecImage == Init /\ [][NextImage]_vars

\* --- loads over loads: a one-byte program, the program that marks every
\* part of the machine, a program that fills memory from 0x200 to the end (a
\* spin, then FF bytes), and the same with one byte more.
MaxProgram == RAM_SIZE - START_ADDR

OneByteRom == <<18>>
FullRom == [k \in 1..MaxProgram |-> IF k = 1 THEN 18 ELSE IF k = 2 THEN 0 ELSE 255]
OverRom == FullRom \o <<255>>

LoadRoms == {OneByteRom, DirtyRom, FullRom, OverRom}

NextLoad ==
  \/ LoadAgain(LoadRoms)
  \/ Tick
  \/ TickTimers

SpecLoad == Init /\ [][NextLoad]_vars

\* --- the keyboard: the sixteen keys of the layout and one key outside it,
\* pressed and released in any order with at most MaxHeld latched at a time
Keycodes ==
  {"Num1", "Num2", "Num3", "Num4", "Q", "W", "E", "R",
   "A", "S", "D", "F", "Z", "X", "C", "V"}

OtherKeys == {"P"}

MaxHeld == 2

Held == Cardinality({k \in 0..(NUM_KEYS - 1) : keys[k]})

\* the layout drawn in the comment of key2btn: keyboard key to CHIP-8 key
KeyLayout(code) ==
  CASE code = "Num1" -> 1
    [] code = "Num2" -> 2
    [] code = "Num3" -> 3
    [] code = "Num4" -> 12
    [] code = "Q" -> 4
    [] code = "W" -> 5
    [] code = "E" -> 6
    [] code = "R" -> 13
    [] code = "A" -> 7
    [] code = "S" -> 8
    [] code = "D" -> 9
    [] code = "F" -> 14
    [] code = "Z" -> 10
    [] code = "X" -> 0
    [] code = "C" -> 11
    [] code = "V" -> 15

NextPad ==
  \/ Load({KeyRom(0, 170)})
  \/ \E code \in Keycodes \cup OtherKeys, down \in BOOLEAN :
       /\ down => Held < MaxHeld
       /\ KeyEvent(code, down)

SpecPad == Init /\ [][NextPad]_vars

\* --- the ends of memory: a jump, or a jump by V0, to the last addresses,
\* and a draw, a digit store, a register store or a register load with I set
\* to i + add through ANNN and FX1E.  With no program the machine runs into
\* the end of memory on its own.
EndRom(i, add, o) ==
  Words(<<LD(0, 171), LD(1, 205), LD(14, add), OP(10, 0, 0, 0) + i,
          OP(15, 14, 1, 14), o, JMP(START_ADDR + 12)>>)

EndRoms ==
  LET addrs == {RAM_SIZE - 16, RAM_SIZE - 3, RAM_SIZE - 2, RAM_SIZE - 1}
      adds == {0, 1, 3, 255}
      counts == {0, 1, 2, 15}
      ops == {OP(13, 0, 0, n) : n \in counts}
             \cup {OP(15, 1, 3, 3)}
             \cup {OP(15, x, 5, 5) : x \in counts}
             \cup {OP(15, x, 6, 5) : x \in counts}
  IN {EndRom(i, add, o) : i \in addrs, add \in adds, o \in ops}
     \cup {Words(<<JMP(nnn)>>) : nnn \in {RAM_SIZE - 4, RAM_SIZE - 2, RAM_SIZE - 1}}
     \cup {Words(<<LD(0, v), OP(11, 0, 0, 0) + nnn, JMP(START_ADDR + 4)>>) :
             v \in {0, 1, 4, 255},
             nnn \in {START_ADDR, RAM_SIZE - 2, RAM_SIZE - 1}}

NextBounds ==
  \/ Load(EndRoms)
  \/ Tick
  \/ TickEmpty

SpecBounds == Init /\ [][NextBounds]_vars

\* --- conditional skips: Vy = b; Vx = a; a skip on Vx and nn or on Vx and
\* Vy; then a spin at each of the two places the skip can leave pc ---
SkipRom(x, y, a, b, o) ==
  Words(<<LD(y, b), LD(x, a), o, JMP(START_ADDR + 6), JMP(START_ADDR + 8)>>)

SkipRoms ==
  LET regs == {0, 1, 15}
      vals == {0, 1, 255}
  IN UNION {{SkipRom(x, y, a, b, o) :
               a \in vals, b \in vals,
               o \in {OP(3, x, 0, 0) + nn : nn \in vals}
                     \cup {OP(4, x, 0, 0) + nn : nn \in vals}
                     \cup {OP(5, x, y, 0), OP(9, x, y, 0)}} :
              x \in regs, y \in regs}

NextSkip ==
  \/ Load(SkipRoms)
  \/ Tick

SpecSkip == Init /\ [][NextSkip]_vars

\* --- key skips: Vx = v; EX9E or EXA1; then a spin at each of the two
\* places the skip can leave pc; the host presses and releases keys ---
PadSkipRom(x, v, o) ==
  Words(<<LD(x, v), o, JMP(START_ADDR + 4), JMP(START_ADDR + 6)>>)

PadSkipRoms ==
  UNION {{PadSkipRom(x, v, o) :
            v \in {0, 3, 9, 15, 16, 19, 255},
            o \in {OP(14, x, 9, 14), OP(14, x, 10, 1)}} :
           x \in KeyRegs}

NextPadSkip ==
  \/ Load(PadSkipRoms)
  \/ Tick
  \/ \E index \in KeySample, pressed \in BOOLEAN : Keypress(index, pressed)

SpecPadSkip == Init /\ [][NextPadSkip]_vars

\* --- the host loop with every operation, on programs that end in each kind
\* of panic and on programs that wait for keys and run timers.
FaultRoms ==
  { Words(<<LD(1, 7), OP(5, 1, 2, 1)>>),
    Words(<<OP(0, 1, 14, 0)>>),
    CallRom(0, STACK_SIZE + 1),
    CallRom(0, 0),
    CallRom(2, 0),
    Words(<<OP(10, 15, 15, 14), LD(0, 1), LD(1, 2), LD(2, 3), OP(15, 2, 5, 5)>>),
    Words(<<OP(10, 15, 15, 15), LD(0, 255), OP(15, 0, 5, 5), OP(13, 1, 1, 2)>>),
    Words(<<OP(10, 15, 15, 15), LD(0, 123), OP(15, 0, 3, 3)>>),
    Words(<<OP(10, 15, 15, 14), OP(15, 2, 6, 5)>>),
    Words(<<LD(0, 16), OP(14, 0, 9, 14)>>),
    Words(<<LD(3, 200), OP(14, 3, 10, 1)>>),
    Words(<<JMP(4094)>>),
    Words(<<JMP(4095)>>),
    Words(<<LD(0, 255), OP(11, 15, 15, 15)>>) }

HostRoms ==
  FaultRoms
  \cup {KeyRom(0, 170), TimerRom(2, 1, OP(15, 3, 0, 7)), TimerRom(1, 2, OP(12, 3, 0, 3))}

Next ==
  \/ Load(HostRoms)
  \/ Tick
  \/ TickTimers
  \/ \E index \in KeySample, pressed \in BOOLEAN : Keypress(index, pressed)
  \/ Reset

Spec == Init /\ [][Next]_vars

-----------------------------------------------------------------------------
(* Properties                                                              *)

\* the machines k more ticks can leave: one for each value random() returns
\* to a CXNN and, for a 00EE, one for each build; nothing runs after a panic
RECURSIVE run(_, _)
run(m, k) ==
  IF k = 0 \/ Faulted(m) THEN {m}
  ELSE IF ~fetch_ok(m) THEN {fetch(m)}
  ELSE UNION {run(tick(m, rng, checked), k - 1) :
                rng \in RandomBytes(fetch_op(m)), checked \in Builds(fetch_op(m))}

\* a step of the host that is a tick whose fetch succeeds
TickStep == call' = "tick" /\ fault = "none" /\ fetch_ok(Emu)

NoKeyPressed == \A k \in 0..(NUM_KEYS - 1) : ~keys[k]

\* C1: key wait.  A tick of FX0A with no key pressed leaves pc at the address
\* of the instruction and every part of the machine unchanged, however often
\* it is repeated; with a key pressed it sets Vx to the lowest pressed index
\* and leaves pc two past the instruction.
C1_KeyWait ==
  [][ (TickStep /\ WordAt(pc) \div 4096 = 15 /\ WordAt(pc) % 256 = 10) =>
        LET x == (WordAt(pc) \div 256) % 16
        IN IF NoKeyPressed
           THEN fault' = "none" /\ UNCHANGED machine
           ELSE /\ fault' = "none"
                /\ pc' = pc + 2
                /\ v_reg'[x] \in 0..(NUM_KEYS - 1)
                /\ keys[v_reg'[x]]
                /\ \A k \in 0..(NUM_KEYS - 1) : keys[k] => v_reg'[x] <= k ]_vars

\* reached: FX0A has completed with keys 3 and 9 down, after the wait
C1_Witness ==
  /\ call = "tick" /\ op \div 4096 = 15 /\ op % 256 = 10
  /\ pc = START_ADDR + 4
  /\ keys[3] /\ keys[9] /\ ~keys[0]
  /\ v_reg[(op \div 256) % 16] = 3

\* C2: stack discipline.  From depth d, at the outermost of n nested CALLs
\* (d + n <= 16), the n CALLs reach depth d + n and the n RETs that follow
\* bring pc to the address after the outermost CALL and the depth back to d.
C2_StackDiscipline ==
  \A d \in 0..(STACK_SIZE - 1) : \A n \in 1..(STACK_SIZE - d) :
    (pc = Slot(d) /\ sp = d /\ fault = "none" /\ call \in {"load", "tick"}
       /\ rom = CallRom(d, n))
    => /\ \A mid \in run(Emu, n) :
            mid.fault = "none" /\ mid.sp = d + n /\ mid.pc = Slot(d + n)
       /\ \A end \in run(Emu, 2 * n) :
            end.fault = "none" /\ end.sp = d /\ end.pc = Slot(d) + 2

\* reached: 13 calls made from depth 3 have all returned
C2_Witness ==
  /\ rom = CallRom(3, 13) /\ call = "tick" /\ op = RET /\ fault = "none"
  /\ pc = Slot(3) + 2 /\ sp = 3

\* C3: stack faults.  A CALL at depth 16 and a RET at depth 0 end in a fault
\* that leaves the depth pointer and the stack slots as they were and pc at
\* a value that does not come from the stack.
C3_StackFaults ==
  [][ (TickStep /\ ( (WordAt(pc) \div 4096 = 2 /\ sp = STACK_SIZE)
                     \/ (WordAt(pc) = RET /\ sp = 0) )) =>
        /\ fault' # "none"
        /\ sp' = sp
        /\ stack' = stack
        /\ pc' \in {pc, pc + 2} ]_vars

\* the opcodes of the instruction table
InTable(o) ==
  LET hi == o \div 4096
      lo == o % 256
      n == o % 16
  IN \/ o \in {0, 224, 238}
     \/ hi \in {1, 2, 3, 4, 6, 7, 10, 11, 12, 13}
     \/ hi \in {5, 9} /\ n = 0
     \/ hi = 8 /\ n \in {0, 1, 2, 3, 4, 5, 6, 7, 14}
     \/ hi = 14 /\ lo \in {158, 161}
     \/ hi = 15 /\ lo \in {7, 10, 21, 24, 30, 41, 51, 85, 101}

\* C4: a tick of a word outside the instruction table ends in the
\* unrecognized-opcode fault with nothing but pc changed; a tick of a word in
\* the table never ends in that fault.
C4_Unrecognized ==
  [][ TickStep =>
        IF InTable(WordAt(pc))
        THEN fault' # "unimplemented"
        ELSE /\ fault' = "unimplemented"
             /\ UNCHANGED <<ram, screen, v_reg, i_reg, sp, stack, keys, dt, st>> ]_vars

\* reached: 8F0F, which no row matches, has faulted
C4_Witness ==
  call = "tick" /\ op = 36623 /\ fault = "unimplemented" /\ pc = START_ADDR + 2

\* C5: no run continues past a fault, and the step that faults leaves the
\* machine as it was before that step.
C5_FaultLeavesState ==
  [][ /\ (fault # "none" => UNCHANGED vars)
      /\ ((fault = "none" /\ fault' # "none") => UNCHANGED machine) ]_vars

\* C6: a timer tick lowers each timer that is above zero by exactly one and
\* leaves a timer at zero at zero; both stay within 0..255; a timer at zero
\* leaves zero only by FX15 (delay) or FX18 (sound).
C6_TimerFloor ==
  [][ /\ (call' = "tick_timers" =>
             /\ dt' = (IF dt > 0 THEN dt - 1 ELSE 0)
             /\ st' = (IF st > 0 THEN st - 1 ELSE 0))
      /\ dt' \in 0..255 /\ st' \in 0..255
      /\ ((dt = 0 /\ dt' # 0) =>
             (TickStep /\ WordAt(pc) \div 4096 = 15 /\ WordAt(pc) % 256 = 21))
      /\ ((st = 0 /\ st' # 0) =>
             (TickStep /\ WordAt(pc) \div 4096 = 15 /\ WordAt(pc) % 256 = 24)) ]_vars

\* reached: the delay timer has sat at zero through 55 timer ticks while the
\* sound timer counted down from 255
C6_Witness ==
  /\ rom = TimerRom(0, 255, OP(15, 3, 0, 7))
  /\ call = "tick_timers" /\ dt = 0 /\ st = 200

\* C7: a tick changes the delay timer only if its instruction is FX15 and the
\* sound timer only if it is FX18; a timer tick changes nothing but the timers.
C7_TimersDecoupled ==
  [][ /\ (call' = "tick" =>
             /\ (dt' # dt =>
                   (TickStep /\ WordAt(pc) \div 4096 = 15 /\ WordAt(pc) % 256 = 21))
             /\ (st' # st =>
                   (TickStep /\ WordAt(pc) \div 4096 = 15 /\ WordAt(pc) % 256 = 24)))
      /\ (call' = "tick_timers" =>
             UNCHANGED <<pc, ram, screen, v_reg, i_reg, sp, stack, keys, fault>>) ]_vars

\* reached: FX07 has copied a running delay timer and both timers still run
C7_Witness ==
  /\ rom = TimerRom(2, 1, OP(15, 3, 0, 7))
  /\ call = "tick" /\ op = OP(15, 3, 0, 7)
  /\ v_reg[3] = 2 /\ dt = 2 /\ st = 1

\* the cells a DXYN with opcode o toggles, from the registers, I and memory
\* of the current state: one per set bit of each sprite row, column 0 being
\* the most significant bit
SpriteCells(o) ==
  LET vx == v_reg[(o \div 256) % 16]
      vy == v_reg[(o \div 16) % 16]
      n == o % 16
  IN {((vx + rc[2]) % 64) + 64 * ((vy + rc[1]) % 32) :
        rc \in {q \in (0..(n - 1)) \X (0..7) :
                  (ram[i_reg + q[1]] \div (2 ^ (7 - q[2]))) % 2 = 1}}

\* two identical one-row draws are the next two instructions and the cells
\* the first will toggle are clear
TwoDrawsAhead ==
  /\ fault = "none" /\ call \in {"load", "tick"}
  /\ pc + 3 < RAM_SIZE /\ i_reg < RAM_SIZE
  /\ WordAt(pc) \div 4096 = 13 /\ WordAt(pc) % 16 = 1
  /\ WordAt(pc + 2) = WordAt(pc)
  /\ \A c \in SpriteCells(WordAt(pc)) : ~screen[c]

\* C8 as stated: for every register pair and every sprite byte the second of
\* two identical one-row draws restores the framebuffer, the first sets VF to
\* 0 and the second sets VF to 1.
C8_DrawTwiceAnyPair ==
  TwoDrawsAhead =>
    LET m1 == tick(Emu, 0, TRUE)
        m2 == tick(m1, 0, TRUE)
    IN m2.screen = screen /\ m1.v_reg[15] = 0 /\ m2.v_reg[15] = 1

\* C8 as amended: when neither coordinate register is VF, the second of two
\* identical one-row draws restores the framebuffer and the first sets VF to
\* 0; the second sets VF to 1 if the sprite byte is not zero and to 0 if it is.
C8_DrawTwice ==
  (TwoDrawsAhead /\ (WordAt(pc) \div 256) % 16 # 15 /\ (WordAt(pc) \div 16) % 16 # 15) =>
    LET m1 == tick(Emu, 0, TRUE)
        m2 == tick(m1, 0, TRUE)
    IN /\ m1.fault = "none" /\ m2.fault = "none"
       /\ m2.screen = screen
       /\ m1.v_reg[15] = 0
       /\ m2.v_reg[15] = (IF ram[i_reg] # 0 THEN 1 ELSE 0)

\* reached: the second of two identical one-row draws (registers other than
\* VF) has run next to an earlier sprite, reported the collision and left only
\* the earlier sprite on the screen
C8_Witness ==
  /\ call = "tick" /\ fault = "none"
  /\ op \div 4096 = 13 /\ op % 16 = 1
  /\ (op \div 256) % 16 # 15 /\ (op \div 16) % 16 # 15
  /\ pc = START_ADDR + 18
  /\ WordAt(pc - 4) = op /\ WordAt(pc - 2) = op
  /\ v_reg[15] = 1
  /\ \E c \in 0..(SCREEN_WIDTH * SCREEN_HEIGHT - 1) : screen[c]
  /\ \A c \in SpriteCells(op) : ~screen[c]

\* C9: a DXYN that completes toggles exactly the cells
\* ((Vx + col) mod 64) + 64 * ((Vy + row) mod 32) of the set bits of its
\* sprite rows, and no other cell.
C9_DrawPlacement ==
  [][ (TickStep /\ WordAt(pc) \div 4096 = 13 /\ fault' = "none") =>
        LET cells == SpriteCells(WordAt(pc))
        IN \A c \in 0..(SCREEN_WIDTH * SCREEN_HEIGHT - 1) :
             screen'[c] = (screen[c] # (c \in cells)) ]_vars

\* reached: a 15-row sprite of full rows drawn once at Vx = 63, Vy = 255 on a
\* blank screen: column 0 at x = 63 and columns 1..7 at x = 0..6 of row 31,
\* the next row on row 0, nothing at x = 7
C9_Witness ==
  /\ call = "tick" /\ op = OP(13, 0, 1, 15) /\ pc = START_ADDR + 8
  /\ v_reg[0] = 63 /\ v_reg[1] = 255
  /\ screen[63 + 64 * 31] /\ screen[0 + 64 * 31] /\ screen[6 + 64 * 31]
  /\ ~screen[7 + 64 * 31] /\ ~screen[62 + 64 * 31]
  /\ screen[63] /\ screen[0] /\ ~screen[7]

\* C10: after a DXYN that completes, VF is 1 if some cell it toggled was set
\* before the draw, in whatever row, and 0 otherwise.
C10_DrawCollision ==
  [][ (TickStep /\ WordAt(pc) \div 4096 = 13 /\ fault' = "none") =>
        v_reg'[15] = (IF \E c \in SpriteCells(WordAt(pc)) : screen[c] THEN 1 ELSE 0) ]_vars

\* reached: a two-row draw one row below an earlier copy of the sprite 80, C0:
\* its first row hit the earlier second row, its second row hit nothing
C10_Witness ==
  /\ call = "tick" /\ op = OP(13, 0, 1, 2) /\ pc = START_ADDR + 16
  /\ ram[SpriteAddr] = 128 /\ ram[SpriteAddr + 1] = 192
  /\ v_reg[0] = 0 /\ v_reg[1] = 1
  /\ v_reg[15] = 1
  /\ screen[0] /\ ~screen[64] /\ screen[65] /\ screen[128] /\ screen[129]

\* the opcode about to be fetched has leading digit hi and last digit n
NextOp(hi, n) == TickStep /\ WordAt(pc) \div 4096 = hi /\ WordAt(pc) % 16 = n

\* 6Xnn and 7Xnn2 on the same register are the next two instructions
LoadThenAdd ==
  /\ fault = "none" /\ call \in {"load", "tick"} /\ pc + 3 < RAM_SIZE
  /\ WordAt(pc) \div 4096 = 6 /\ WordAt(pc + 2) \div 4096 = 7
  /\ (WordAt(pc) \div 256) % 16 = (WordAt(pc + 2) \div 256) % 16

\* C11 as stated: for every register x, 6Xnn then 7Xnn2 leave Vx at
\* (nn + nn2) mod 256 and VF as it was before them.
C11_AddImmediateAnyReg ==
  LoadThenAdd =>
    LET x == (WordAt(pc) \div 256) % 16
    IN \A m2 \in run(Emu, 2) :
         /\ m2.v_reg[x] = ((WordAt(pc) % 256) + (WordAt(pc + 2) % 256)) % 256
         /\ m2.v_reg[15] = v_reg[15]

\* C11 as amended: 6Xnn then 7Xnn2 leave Vx at (nn + nn2) mod 256 for every
\* register x, VF included, and leave VF as it was when x is not F.
C11_AddImmediate ==
  LoadThenAdd =>
    LET x == (WordAt(pc) \div 256) % 16
    IN \A m2 \in run(Emu, 2) :
         /\ m2.fault = "none"
         /\ m2.v_reg[x] = ((WordAt(pc) % 256) + (WordAt(pc + 2) % 256)) % 256
         /\ (x # 15 => m2.v_reg[15] = v_reg[15])

\* reached: V3 = 255 then V3 += 1 has wrapped to 0 and VF still holds its seed
C11_Witness ==
  /\ rom = AddRom(3, 255, 1) /\ call = "tick" /\ op = OP(7, 3, 0, 1)
  /\ v_reg[3] = 0 /\ v_reg[15] = FlagSeed

\* C12: after 8XY4, VF is 1 if Vx + Vy before it exceeded 255 and 0 otherwise;
\* Vx is (Vx + Vy) mod 256 unless x is F, when VF holds the flag.
C12_AddCarry ==
  [][ NextOp(8, 4) =>
        LET x == (WordAt(pc) \div 256) % 16
            y == (WordAt(pc) \div 16) % 16
            sum == v_reg[x] + v_reg[y]
        IN /\ fault' = "none"
           /\ v_reg'[15] = (IF sum > 255 THEN 1 ELSE 0)
           /\ (x # 15 => v_reg'[x] = sum % 256) ]_vars

\* reached: VF = 255 plus V1 = 1 by 8F14: the sum is 0, VF holds the carry
C12_Witness ==
  /\ rom = AluRom(15, 1, 255, 1, 4) /\ call = "tick" /\ op = OP(8, 15, 1, 4)
  /\ v_reg[15] = 1 /\ v_reg[1] = 1

\* C13: 8XY5 sets Vx to (Vx - Vy) mod 256 and VF to 0 if Vx < Vy, else 1;
\* 8XY7 sets Vx to (Vy - Vx) mod 256 and VF to 0 if Vy < Vx, else 1; when x
\* is F, VF holds the flag.
C13_SubBorrow ==
  [][ /\ (NextOp(8, 5) =>
            LET x == (WordAt(pc) \div 256) % 16
                y == (WordAt(pc) \div 16) % 16
            IN /\ fault' = "none"
               /\ v_reg'[15] = (IF v_reg[x] < v_reg[y] THEN 0 ELSE 1)
               /\ (x # 15 => v_reg'[x] = (v_reg[x] - v_reg[y]) % 256))
      /\ (NextOp(8, 7) =>
            LET x == (WordAt(pc) \div 256) % 16
                y == (WordAt(pc) \div 16) % 16
            IN /\ fault' = "none"
               /\ v_reg'[15] = (IF v_reg[y] < v_reg[x] THEN 0 ELSE 1)
               /\ (x # 15 => v_reg'[x] = (v_reg[y] - v_reg[x]) % 256)) ]_vars

\* reached: equal operands 128 - 128 by 8015 give 0 with VF = 1
C13_Witness ==
  /\ rom = AluRom(0, 1, 128, 128, 5) /\ call = "tick" /\ op = OP(8, 0, 1, 5)
  /\ v_reg[0] = 0 /\ v_reg[1] = 128 /\ v_reg[15] = 1

\* what 8XY6 and 8XYE leave in VF and Vx
ShiftResult ==
  /\ (NextOp(8, 6) =>
        LET x == (WordAt(pc) \div 256) % 16
        IN /\ fault' = "none"
           /\ v_reg'[15] = v_reg[x] % 2
           /\ (x # 15 => v_reg'[x] = v_reg[x] \div 2))
  /\ (NextOp(8, 14) =>
        LET x == (WordAt(pc) \div 256) % 16
        IN /\ fault' = "none"
           /\ v_reg'[15] = (v_reg[x] \div 128) % 2
           /\ (x # 15 => v_reg'[x] = (2 * v_reg[x]) % 256))

\* C14 as stated: 8XY6 and 8XYE set VF to the bit shifted out and Vx to the
\* shifted value, and leave Vy unchanged for every y.
C14_ShiftAnyPair ==
  [][ /\ ShiftResult
      /\ ((NextOp(8, 6) \/ NextOp(8, 14)) =>
            v_reg'[(WordAt(pc) \div 16) % 16] = v_reg[(WordAt(pc) \div 16) % 16]) ]_vars

\* C14 as amended: 8XY6 and 8XYE set VF to the bit shifted out and Vx to the
\* shifted value whatever Vy holds, and leave Vy unchanged when y is neither
\* x nor F.
C14_Shift ==
  [][ /\ ShiftResult
      /\ ((NextOp(8, 6) \/ NextOp(8, 14)) =>
            LET x == (WordAt(pc) \div 256) % 16
                y == (WordAt(pc) \div 16) % 16
            IN y \notin {x, 15} =>
                 v_reg'[y] = v_reg[y]) ]_vars

\* reached: V1 = 255 shifted left by 810E with V0 = 1: V1 = 254, VF = 1, V0 kept
C14_Witness ==
  /\ rom = AluRom(1, 0, 255, 1, 14) /\ call = "tick" /\ op = OP(8, 1, 0, 14)
  /\ v_reg[1] = 254 /\ v_reg[0] = 1 /\ v_reg[15] = 1

\* C15: FX33 with I + 2 <= 4095 stores Vx div 100, (Vx div 10) mod 10 and
\* Vx mod 10 at I, I + 1 and I + 2: three decimal digits whose value is Vx;
\* no other byte of memory, no register and not I changes.
C15_Bcd ==
  [][ (TickStep /\ WordAt(pc) \div 4096 = 15 /\ WordAt(pc) % 256 = 51
         /\ i_reg + 2 <= RAM_SIZE - 1) =>
        LET vx == v_reg[(WordAt(pc) \div 256) % 16]
        IN /\ fault' = "none"
           /\ ram'[i_reg] = vx \div 100
           /\ ram'[i_reg + 1] = (vx \div 10) % 10
           /\ ram'[i_reg + 2] = vx % 10
           /\ 100 * ram'[i_reg] + 10 * ram'[i_reg + 1] + ram'[i_reg + 2] = vx
           /\ \A k \in 0..2 : ram'[i_reg + k] \in 0..9
           /\ \A a \in 0..(RAM_SIZE - 1) :
                a \notin i_reg..(i_reg + 2) => ram'[a] = ram[a]
           /\ UNCHANGED <<v_reg, i_reg>> ]_vars

\* reached: VF = 199 stored as 1, 9, 9 in the last three bytes of memory
C15_Witness ==
  /\ rom = BcdRom(15, 199, RAM_SIZE - 3) /\ call = "tick" /\ op = OP(15, 15, 3, 3)
  /\ fault = "none" /\ i_reg = RAM_SIZE - 3
  /\ ram[RAM_SIZE - 3] = 1 /\ ram[RAM_SIZE - 2] = 9 /\ ram[RAM_SIZE - 1] = 9

\* the next instructions are FX55, then the x + 1 loads of zero into V0..Vx,
\* then FX65 with the same x; I + x is inside memory and the bytes stored do
\* not overlap those instructions
StoreThenLoad ==
  /\ fault = "none" /\ call \in {"load", "tick"} /\ pc + 1 < RAM_SIZE
  /\ WordAt(pc) \div 4096 = 15 /\ WordAt(pc) % 256 = 85
  /\ LET x == (WordAt(pc) \div 256) % 16
     IN /\ pc + 2 * (x + 2) + 1 < RAM_SIZE
        /\ \A k \in 0..x : WordAt(pc + 2 + 2 * k) = LD(k, 0)
        /\ WordAt(pc + 2 * (x + 2)) = OP(15, x, 6, 5)
        /\ i_reg + x <= RAM_SIZE - 1
        /\ (i_reg + x < pc \/ i_reg > pc + 2 * (x + 2) + 1)

\* C16: FX55, V0..Vx zeroed, FX65 with the same x and I restores V0..Vx.
\* FX55 writes exactly memory[I..I+x] and FX65 exactly V0..Vx; neither
\* changes I or a register above Vx.
C16_StoreLoad ==
  StoreThenLoad =>
    LET x == (WordAt(pc) \div 256) % 16
        m1 == tick(Emu, 0, TRUE)
    IN \A m2 \in run(m1, x + 1) :
       LET m3 == tick(m2, 0, TRUE)
       IN /\ m1.fault = "none" /\ m3.fault = "none"
          /\ \A a \in 0..(RAM_SIZE - 1) :
               m1.ram[a] = (IF a \in i_reg..(i_reg + x) THEN v_reg[a - i_reg] ELSE ram[a])
          /\ m1.v_reg = v_reg /\ m1.i_reg = i_reg
          /\ \A k \in 0..x : m2.v_reg[k] = 0
          /\ m2.i_reg = i_reg
          /\ \A k \in 0..(NUM_REGS - 1) :
               m3.v_reg[k] = (IF k <= x THEN v_reg[k] ELSE m2.v_reg[k])
          /\ m3.ram = m2.ram /\ m3.i_reg = i_reg

\* reached: V0..V9 have been stored over the font table, zeroed and loaded
\* back, and VA..VF still hold their seeds
C16_Witness ==
  /\ rom = StoreRom(9, 0) /\ call = "tick" /\ op = OP(15, 9, 6, 5) /\ fault = "none"
  /\ i_reg = 0
  /\ \A k \in 0..(NUM_REGS - 1) : v_reg[k] = RegSeed(k)
  /\ \A k \in 0..9 : ram[k] = RegSeed(k)
  /\ ram[10] = FONTSET[11]

\* C17: whatever the host did before, reset leaves the machine in the state
\* new returns: pc = 0x200; registers, I, timers, depth pointer and stack
\* slots zero; keys released; framebuffer clear; memory zero but for the font
\* table at 0..79.
C17_ResetIsNew ==
  [][ call' = "reset" =>
        /\ fault' = "none"
        /\ Emu' = new
        /\ pc' = 512 /\ i_reg' = 0 /\ dt' = 0 /\ st' = 0 /\ sp' = 0
        /\ \A r \in 0..15 : v_reg'[r] = 0 /\ stack'[r] = 0 /\ ~keys'[r]
        /\ \A c \in 0..2047 : ~screen'[c]
        /\ \A a \in 0..4095 : ram'[a] = (IF a < 80 THEN FONTSET[a + 1] ELSE 0) ]_vars

\* reached: a reset after the host had delivered key events
C17_Witness ==
  /\ call = "reset" /\ key = <<"V", TRUE>> /\ fault = "none"
  /\ pc = START_ADDR /\ ~keys[15] /\ ram[START_ADDR] = 0 /\ ram[768] = 0

\* C18: a load of L <= 3584 bytes writes them at 0x200 .. 0x200 + L - 1 and
\* leaves every other byte of memory (the font table, and what an earlier
\* load left past 0x200 + L) and everything that is not memory as it was; a
\* load of more than 3584 bytes faults with memory as it was.
C18_LoadFrame ==
  [][ call' = "load" =>
        LET L == Len(rom')
        IN IF L <= 3584
           THEN /\ fault' = "none"
                /\ \A a \in 0..4095 :
                     ram'[a] = (IF a >= 512 /\ a < 512 + L THEN rom'[a - 511] ELSE ram[a])
                /\ \A a \in 0..79 : ram'[a] = ram[a]
                /\ UNCHANGED <<pc, screen, v_reg, i_reg, sp, stack, keys, dt, st>>
           ELSE /\ fault' # "none"
                /\ UNCHANGED machine ]_vars

\* reached: the 26-byte program loaded again over the 3584-byte one on a
\* machine that was running: the tail of the long program, the font table,
\* the timers, the stack and the screen are all still there
C18_Witness ==
  /\ call = "load" /\ rom = DirtyRom /\ fault = "none"
  /\ ram[START_ADDR] = 97 /\ ram[START_ADDR + 25] = 24
  /\ ram[START_ADDR + 26] = 255 /\ ram[768] = 255 /\ ram[RAM_SIZE - 1] = 255
  /\ \A a \in 0..(FONTSET_SIZE - 1) : ram[a] = FONTSET[a + 1]
  /\ sp = 1 /\ stack[0] = START_ADDR + 14 /\ dt = 3 /\ v_reg[3] = 234
  /\ \E c \in 0..(SCREEN_WIDTH * SCREEN_HEIGHT - 1) : screen[c]

\* C19: FX29 with Vx = d in 0..15 sets I to 5 * d, the five bytes at
\* 5 * d .. 5 * d + 4 are the rows of the sprite of digit d, and nothing but
\* I (and pc) changes.
C19_FontLayout ==
  [][ (TickStep /\ WordAt(pc) \div 4096 = 15 /\ WordAt(pc) % 256 = 41
         /\ v_reg[(WordAt(pc) \div 256) % 16] < 16) =>
        LET d == v_reg[(WordAt(pc) \div 256) % 16]
        IN /\ fault' = "none"
           /\ i_reg' = 5 * d
           /\ \A k \in 0..4 : ram'[i_reg' + k] = FONTSET[5 * d + k + 1]
           /\ pc' = pc + 2
           /\ UNCHANGED <<ram, screen, v_reg, sp, stack, keys, dt, st>> ]_vars

\* reached: after a reset and a second load, FX29 with VF = 0xF has pointed
\* I at the sprite of F and the draw has put its top row 1111.... on row 15
C19_Witness ==
  /\ rom = FontRom(15, 15) /\ call = "tick" /\ op = OP(13, 15, 15, 5)
  /\ key # <<"none", FALSE>>
  /\ i_reg = 75 /\ ram[75] = 240 /\ ram[79] = 128
  /\ screen[15 + 64 * 15] /\ screen[18 + 64 * 15] /\ ~screen[19 + 64 * 15]
  /\ screen[15 + 64 * 19] /\ ~screen[16 + 64 * 19]

\* C20: key2btn is one-to-one from the sixteen keys of the layout onto
\* 0..15 with every index below 16, and a KeyDown or KeyUp of a key of the
\* layout sets or clears the latch entry the layout gives for it and no other.
C20_KeyLayout ==
  [][ (call' \in {"keypress", "none"} /\ key'[1] \in Keycodes) =>
        /\ \A code \in Keycodes : key2btn(code) \in 0..(NUM_KEYS - 1)
        /\ {key2btn(code) : code \in Keycodes} = 0..(NUM_KEYS - 1)
        /\ call' = "keypress"
        /\ keys' = [keys EXCEPT ![KeyLayout(key'[1])] = key'[2]] ]_vars

\* C21: stack depth.  In every state the host loop reaches, the state a
\* panicking CALL or RET leaves included, the depth pointer is in 0..16, and
\* a step changes it only by +1 in a tick of 2NNN, by -1 in a tick of 00EE
\* and to 0 in a reset.
C21_StackDepth ==
  [][ /\ sp \in 0..STACK_SIZE
      /\ sp' \in 0..STACK_SIZE
      /\ sp' # sp =>
           \/ TickStep /\ decode(WordAt(pc)) = "CALL" /\ sp' = sp + 1
           \/ TickStep /\ decode(WordAt(pc)) = "RET" /\ sp' = sp - 1
           \/ call' = "reset" /\ sp' = 0 ]_vars

\* the highest index of ram the arm of opcode o reads or writes in the
\* current state if nothing stops it, or -1 if the arm does not index ram
MemLast(o) ==
  CASE decode(o) = "DRAW" -> IF digit4(o) = 0 THEN -1 ELSE i_reg + digit4(o) - 1
    [] decode(o) = "BCD" -> i_reg + 2
    [] decode(o) \in {"STORE", "LOAD"} -> i_reg + digit2(o)
    [] OTHER -> -1

\* the addresses the arm of opcode o may write
MemWritten(o) ==
  IF decode(o) \in {"BCD", "STORE"} THEN i_reg..MemLast(o) ELSE {}

\* C22: memory accesses stay in bounds.  A tick whose fetch would read past
\* ram[4095] panics on the index with the machine untouched; a draw, FX33,
\* FX55 or FX65 whose last address I + k is past 4095 panics on the index and
\* one whose addresses are all in range does not; no tick writes ram outside
\* the addresses of its instruction, and FX65 reads no register from a
\* wrapped address; 1NNN and BNNN leave pc at nnn and V0 + nnn, not
\* truncated; and a machine with no program executes no-ops from 0x200 on
\* until the fetch at 4096 panics.
C22_MemoryBounds ==
  [][ (call' = "tick" /\ fault = "none") =>
        IF pc + 1 >= RAM_SIZE
        THEN fault' = "index_out_of_bounds" /\ UNCHANGED machine
        ELSE LET o == WordAt(pc)
                 x == digit2(o)
             IN /\ MemLast(o) >= RAM_SIZE => fault' = "index_out_of_bounds"
                /\ (MemLast(o) >= 0 /\ MemLast(o) < RAM_SIZE) => fault' = "none"
                /\ \A a \in 0..(RAM_SIZE - 1) :
                     a \notin MemWritten(o) => ram'[a] = ram[a]
                /\ decode(o) = "LOAD" =>
                     \A k \in 0..(NUM_REGS - 1) :
                       v_reg'[k] = IF k <= x /\ i_reg + k < RAM_SIZE
                                   THEN ram[i_reg + k]
                                   ELSE v_reg[k]
                /\ decode(o) = "JMP" => pc' = NNN(o)
                /\ decode(o) = "JMP_V0" => pc' = v_reg[0] + NNN(o)
                /\ rom = << >> =>
                     /\ o = 0 /\ fault' = "none" /\ pc' = pc + 2
                     /\ UNCHANGED <<ram, screen, v_reg, i_reg, sp, stack,
                                    keys, dt, st>> ]_vars

\* reached: FX55 with x = 2 and I = 4094 has stored V0 and V1 in the last two
\* bytes of memory and panicked on the third
C22_Witness ==
  /\ rom = EndRom(RAM_SIZE - 3, 1, OP(15, 2, 5, 5)) /\ call = "tick"
  /\ op = OP(15, 2, 5, 5) /\ fault = "index_out_of_bounds"
  /\ i_reg = RAM_SIZE - 2 /\ ram[RAM_SIZE - 2] = 171 /\ ram[RAM_SIZE - 1] = 205

\* the opcode that tests the opposite condition on the same operands:
\* 3XNN and 4XNN, 5XY0 and 9XY0
SkipTwin(o) ==
  CASE digit1(o) = 3 -> o + 4096
    [] digit1(o) = 4 -> o - 4096
    [] digit1(o) = 5 -> o + 4 * 4096
    [] digit1(o) = 9 -> o - 4 * 4096

\* C23: conditional skips.  A tick of 3XNN at address a leaves pc at a + 4
\* if Vx = nn, 4XNN if Vx # nn, 5XY0 if Vx = Vy, 9XY0 if Vx # Vy, and at
\* a + 2 otherwise; in the same state the instruction that tests the opposite
\* condition skips exactly when this one does not; nothing but pc changes.
C23_Skips ==
  [][ (TickStep /\ decode(WordAt(pc)) \in {"SE_NN", "SNE_NN", "SE_VY", "SNE_VY"}) =>
        LET o == WordAt(pc)
            vx == v_reg[digit2(o)]
            vy == v_reg[digit3(o)]
            skip == CASE digit1(o) = 3 -> vx = NN(o)
                      [] digit1(o) = 4 -> vx # NN(o)
                      [] digit1(o) = 5 -> vx = vy
                      [] digit1(o) = 9 -> vx # vy
            twin == execute(fetch(Emu), SkipTwin(o), 0, TRUE)
        IN /\ fault' = "none"
           /\ pc' = IF skip THEN pc + 4 ELSE pc + 2
           /\ UNCHANGED <<ram, screen, v_reg, i_reg, sp, stack, keys, dt, st>>
           /\ twin = [Emu EXCEPT !.pc = IF skip THEN pc + 2 ELSE pc + 4] ]_vars

\* reached: 9XY0 with VF = 255 and V0 = 1 has skipped the word after it
C23_Witness ==
  /\ rom = SkipRom(15, 0, 255, 1, OP(9, 15, 0, 0)) /\ call = "tick"
  /\ op = OP(9, 15, 0, 0) /\ fault = "none"
  /\ pc = START_ADDR + 8 /\ v_reg[15] = 255 /\ v_reg[0] = 1

\* C24: key skips.  With Vx in 0..15 a tick of EX9E at address a leaves pc
\* at a + 4 if key Vx is pressed and at a + 2 if not, EXA1 the other way
\* round, so in the same state exactly one of the two skips, and nothing but
\* pc changes; with Vx in 16..255 both panic on the key index, with the keys
\* and the registers as they were.
C24_KeySkips ==
  [][ (TickStep /\ decode(WordAt(pc)) \in {"SKP", "SKNP"}) =>
        LET o == WordAt(pc)
            x == digit2(o)
            vx == v_reg[x]
            skp == OP(14, x, 9, 14)
            sknp == OP(14, x, 10, 1)
            twin == execute(fetch(Emu), IF o = skp THEN sknp ELSE skp, 0, TRUE)
        IN IF vx < NUM_KEYS
           THEN LET skip == (o = skp) <=> keys[vx]
                IN /\ fault' = "none"
                   /\ pc' = IF skip THEN pc + 4 ELSE pc + 2
                   /\ UNCHANGED <<ram, screen, v_reg, i_reg, sp, stack,
                                  keys, dt, st>>
                   /\ twin = [Emu EXCEPT !.pc = IF skip THEN pc + 2 ELSE pc + 4]
           ELSE /\ fault' = "index_out_of_bounds"
                /\ UNCHANGED <<keys, v_reg>>
                /\ twin.fault = "index_out_of_bounds" ]_vars

\* reached: EX9E with VF = 15 has skipped the word after it, with key F down
\* and key 3 up
C24_Witness ==
  /\ rom = PadSkipRom(15, 15, OP(14, 15, 9, 14)) /\ call = "tick"
  /\ op = OP(14, 15, 9, 14)
  /\ fault = "none" /\ pc = START_ADDR + 6
  /\ v_reg[15] = 15 /\ keys[15] /\ ~keys[3]

====
